---- MODULE Spec2Model ----
(***************************************************************************)
(* oxpilot: one actor task owns the LLM and serves Command::Prompt         *)
(* messages from a bounded mpsc queue (src/src/main.rs); for each command  *)
(* it runs process() (src/src/process.rs), which sends the generated text  *)
(* on the command's responder channel.  Front ends (the completion route,  *)
(* the CLI flows) create a responder channel per request, enqueue one      *)
(* command and drain the channel.                                          *)
(***************************************************************************)
EXTENDS Integers, Sequences, FiniteSets, TLC

(* ------------------------------ bounds -------------------------------- *)

\* front-end tasks (HTTP handlers) that submit one command each
NumClients == 2
\* largest cli.to_sample explored with NumClients concurrent clients
MaxToSample == 1
\* how far beyond a threshold the long-prompt scenario goes
Margin == 1

(* ------------------------- program constants -------------------------- *)

\* candle_transformers::models::quantized_llama::MAX_SEQ_LEN
MAX_SEQ_LEN == 4096
\* mpsc::channel(32): the command queue
QUEUE_CAP == 32
\* mpsc::channel(8): a responder channel
RESPONDER_CAP == 8
\* cli.repeat_last_n, default_value_t
DEFAULT_REPEAT_LAST_N == 64
\* cli.repeat_penalty, default_value_t = 1.1, in tenths
REPEAT_PENALTY == 11
\* max_sampled of the commit flow's commands
COMMIT_MAX_SAMPLED == 256
\* max_sampled of the prompt flow's command
PROMPT_MAX_SAMPLED == 4096
\* cli.seed, default_value_t
SEED == 299792458
\* the exit status of a process whose main thread panics
PANIC_STATUS == 101

Clients == 1..NumClients

(* ----------------------------- tokenizer ------------------------------ *)

\* Option<T>
None == [some |-> FALSE]
Some(v) == [some |-> TRUE, val |-> v]

\* The head of the tokenizer's vocabulary, as character sequences; the
\* token with id i is VocabHead[i + 1].  "U+2581" is the SentencePiece
\* word-boundary character.
VocabHead ==
  << <<"<", "u", "n", "k", ">">>,
     <<"<", "s", ">">>,
     <<"<", "/", "s", ">">>,
     <<"U+2581", "a">>,
     <<"<", "0", "x", "0", "A", ">">>,
     <<"b">>,
     <<"f", "i", "x", ":">>,
     <<"b", "\n">> >>

\* ids the sampler can return
SampleIds == {3, 4}

\* a prompt is a text of prompt.words words, the i-th of them the i-th
\* vocabulary entry after the head
WordId(w) == Len(VocabHead) + w - 1

\* tokenizer.encode(prompt, true) when it succeeds: the ids of the words
Encode(prompt) == [i \in 1..prompt.words |-> WordId(i)]

\* Option::unwrap_or
unwrap_or(o, d) == IF o.some THEN o.val ELSE d

\* the size of the tokenizer's vocabulary: the head and the words a prompt
\* can be made of.  The tokenizer and the model file come from two
\* repositories (cli.tokenizer_repo_id, cli.model_repo_id), and nothing
\* compares their vocabularies
TokenizerVocab == Len(VocabHead) + 2 * MAX_SEQ_LEN

\* tokenizer.id_to_token: None for an id outside the vocabulary
id_to_token(id) ==
  IF id < Len(VocabHead) THEN Some(VocabHead[id + 1])
  ELSE IF id < TokenizerVocab THEN Some(<<"w">>)
  ELSE None

HexDigits == <<"0", "1", "2", "3", "4", "5", "6", "7", "8", "9",
               "A", "B", "C", "D", "E", "F">>

HexVal(c) == (CHOOSE i \in 1..Len(HexDigits) : HexDigits[i] = c) - 1

IsHex(c) == \E i \in 1..Len(HexDigits) : HexDigits[i] = c

RECURSIVE HexNum(_)
HexNum(s) ==
  IF s = <<>> THEN 0 ELSE 16 * HexNum(SubSeq(s, 1, Len(s) - 1)) + HexVal(s[Len(s)])

\* u8::from_str_radix(t, 16).ok()
from_str_radix(t) ==
  IF t # <<>> /\ (\A i \in 1..Len(t) : IsHex(t[i])) /\ HexNum(t) < 256
  THEN Some(HexNum(t))
  ELSE None

\* char::from_u32 for the code points the vocabulary head uses
AsciiChar(n) == IF n = 10 THEN "\n" ELSE IF n = 32 THEN " " ELSE "chr"

\* token_to_text
token_to_text(next_token) ==
  LET tok == id_to_token(next_token) IN
  IF ~tok.some THEN <<>>
  ELSE
    LET replaced == [i \in 1..Len(tok.val) |->
                       IF tok.val[i] = "U+2581" THEN " " ELSE tok.val[i]]
        stripped ==
          IF Len(replaced) >= 4 /\ SubSeq(replaced, 1, 3) = <<"<", "0", "x">>
             /\ replaced[Len(replaced)] = ">"
          THEN from_str_radix(SubSeq(replaced, 4, Len(replaced) - 1))
          ELSE None
    IN IF stripped.some /\ stripped.val < 128
       THEN <<AsciiChar(stripped.val)>>
       ELSE replaced

\* tokenizer.token_to_id for a token of the vocabulary head
token_to_id(t) == (CHOOSE i \in 1..Len(VocabHead) : VocabHead[i] = t) - 1

\* let eos_token = "</s>": the actor task passes it to process()
eos_token == <<"<", "/", "s", ">">>

(* ------------------------------ process ------------------------------- *)

\* usize::saturating_sub
saturating_sub(a, b) == IF a > b THEN a - b ELSE 0

\* a window cut at the wrong end: the oldest tokens are kept
TruncateKeepOldest(tokens, ts) ==
  IF Len(tokens) + ts > MAX_SEQ_LEN - 10
  THEN LET to_remove == Len(tokens) + ts + 10 - MAX_SEQ_LEN
       IN SubSeq(tokens, 1, Len(tokens) - saturating_sub(Len(tokens), to_remove))
  ELSE tokens

\* lines 61-66: the prompt window process() keeps
Truncate(tokens, ts) ==
  IF Len(tokens) + ts > MAX_SEQ_LEN - 10
  THEN LET to_remove == Len(tokens) + ts + 10 - MAX_SEQ_LEN
       IN SubSeq(tokens, saturating_sub(Len(tokens), to_remove) + 1, Len(tokens))
  ELSE tokens

\* model_weights.forward(&input, pos) when it succeeds: the logits, in
\* hundredths and for the ids of the vocabulary head, of a model whose
\* scores depend on the last token of the input and on the position
forward(last, pos) ==
  [i \in 1..Len(VocabHead) |-> 100 * (((i - 1 + last + pos) % 3) - 1)]

\* f32 division in the model's fixed point: towards zero
div_penalty(x, penalty) ==
  IF x >= 0 THEN (x * 10) \div penalty ELSE 0 - (((0 - x) * 10) \div penalty)

\* candle_transformers::utils::apply_repeat_penalty: the logit of every
\* token of the context is divided by the penalty when it is positive
\* and multiplied by it otherwise
apply_repeat_penalty(logits, penalty, context) ==
  [i \in 1..Len(logits) |->
     IF \E k \in 1..Len(context) : context[k] = i - 1
     THEN IF logits[i] >= 0 THEN div_penalty(logits[i], penalty)
          ELSE (logits[i] * penalty) \div 10
     ELSE logits[i]]

\* a window that is the whole history
PenaltyContextWhole(all_tokens, last_n) == all_tokens

\* lines 89 and 93: &all_tokens[start_at..]
PenaltyContext(all_tokens, last_n) ==
  LET start_at == saturating_sub(Len(all_tokens), last_n)
  IN SubSeq(all_tokens, start_at + 1, Len(all_tokens))

(* ------------------------------- state -------------------------------- *)

VARIABLES
  scenario,        \* which family of runs this behaviour belongs to
  to_sample,       \* cli.to_sample, read once by the actor task
  repeat_last_n,   \* cli.repeat_last_n, read once by the actor task
  txDropped,       \* main has dropped its Sender of the command queue
  commit_message,  \* the commit flow's commit_message
  submitted,       \* history: per responder, the command sent with it
  flags,           \* the options and the staged diff `ox commit` runs with
  requests,        \* per HTTP handler: the body of its request
  events,          \* per HTTP handler: the SSE events its stream has yielded
  cli,             \* what a CLI flow has written, asked and executed
  builder,         \* the LLMBuilder, what its setters were given, the LLM
  runLog,          \* history: per command, its sampler and what it drew
  queue,           \* the command queue: commands sent on tx, not yet received
  rxDropped,       \* the actor task is gone and its rx with it
  procs,           \* per command: the locals of its process() future
  chan,            \* per responder channel: the buffered fragments
  senderDropped,   \* per responder channel: the Sender has been dropped
  receiverDropped, \* per responder channel: the Receiver has been dropped
  clientPc,        \* per front-end task: where it is
  received,        \* per front-end task: the fragments recv() returned
  fwdLog,          \* history: the calls of model_weights.forward
  produced,        \* history: per command, the texts line 97 computed
  sent,            \* history: per command, the texts line 98 sent
  enqueued         \* history: the clients in the order their send completed

\* what the command line and the repository fix
config == <<scenario, to_sample, repeat_last_n, flags>>

vars == <<config, txDropped, commit_message, submitted, requests, events,
          cli, builder, runLog, queue, rxDropped, procs, chan, senderDropped,
          receiverDropped, clientPc, received, fwdLog, produced, sent,
          enqueued>>

\* the variables only the front ends and main write
front == <<txDropped, commit_message, submitted, requests, events, cli>>

\* the families of runs: HTTP handlers served concurrently, one consumer
\* slower than the actor, prompts around the truncation thresholds, a
\* library caller choosing max_sampled with a model that can answer
\* "</s>", `ox commit`, a server whose axum::serve returns while
\* requests are being served, one HTTP request with any combination of
\* its optional fields, HTTP requests with the same prompt, the ad hoc
\* prompt flow, and the construction of the LLM
Scenarios ==
  {"concurrent", "backpressure", "long", "stop", "commit", "shutdown",
   "http", "repro", "prompt", "builder"}

\* the front end of a scenario: the completion route, `ox commit`, the ad
\* hoc prompt flow of the CLI, or a caller of the library
FrontEnd(sc) ==
  IF sc \in {"commit", "prompt"} THEN sc
  ELSE IF sc = "stop" THEN "library"
  ELSE "completion"

\* the prompt text of n words
PromptOfLen(n) == [words |-> n]

\* the empty prompt and prompt lengths around the thresholds of the
\* truncation, for a given to_sample: the margin test of line 61, the context window, and the
\* length from which the retained window outgrows the context window
LongLens(ts) ==
  {0} \cup {MAX_SEQ_LEN - 10 - ts + d : d \in (0 - Margin)..Margin}
    \cup {MAX_SEQ_LEN - ts + d : d \in 0..Margin}
    \cup {2 * MAX_SEQ_LEN - 10 - 2 * ts + d : d \in 0..Margin}

\* the prompts front end r may submit: any of the long scenario's, and
\* otherwise one of its own, so that no two clients send the same prompt;
\* the commit flow sends the same prompt again (prompt.clone())
Prompts(r) ==
  IF scenario = "long" THEN {PromptOfLen(n) : n \in LongLens(to_sample)}
  ELSE IF scenario \in {"commit", "prompt", "repro", "http"}
  THEN {PromptOfLen(1)}
  ELSE {PromptOfLen(r)}

\* what logits_processor.sample may return to a run that has sampled n
\* tokens: any id of SampleIds, except in the backpressure and shutdown
\* scenarios, whose model answers with the same alternating text, in the stop
\* scenario, whose model also answers "</s>", in the commit scenario,
\* whose model writes "fix:" and " a", in the http scenario, whose
\* model file has one token more than the tokenizer, and in the prompt
\* scenario, whose model also ends a line after a word
Samples(n) ==
  IF scenario \in {"backpressure", "shutdown"}
  THEN {IF n % 2 = 0 THEN 3 ELSE 4}
  ELSE IF scenario = "stop" THEN {2, 3}
  ELSE IF scenario = "commit" THEN {3, 6}
  ELSE IF scenario = "http" THEN SampleIds \cup {TokenizerVocab}
  ELSE IF scenario = "prompt" THEN SampleIds \cup {7}
  ELSE SampleIds

\* the values of cli.to_sample tried in a scenario
ToSamples(sc) ==
  IF sc = "backpressure" THEN (RESPONDER_CAP + 1)..(RESPONDER_CAP + Margin)
  ELSE IF sc \in {"stop", "commit", "http", "prompt"}
  THEN 0..(MaxToSample + 1)
  ELSE IF sc \in {"shutdown", "repro"} THEN {MaxToSample}
  ELSE 0..MaxToSample

\* the values of cli.repeat_last_n tried in a scenario: the default, and
\* where the run is long enough, windows shorter than the history
RepeatLastNs(sc) ==
  IF sc = "backpressure" THEN {0, 2, DEFAULT_REPEAT_LAST_N}
  ELSE {DEFAULT_REPEAT_LAST_N}

\* the front-end tasks of a scenario; the repro scenario is about pairs
\* of runs
Present(sc) ==
  IF sc \in {"concurrent", "shutdown"} THEN Clients
  ELSE IF sc = "repro" THEN {1, 2}
  ELSE IF sc = "builder" THEN {}
  ELSE {1}

\* the temperature, in tenths, of the command a CLI flow or a library
\* caller sends with responder r: the commit flow's first attempt and its
\* retry, and the prompt flow's
Temperature(r) ==
  IF scenario = "commit" THEN (IF r = 1 THEN 8 ELSE 12) ELSE 10

\* the max_sampled of the command sent with responder r: the commit
\* flow's, any value of a library caller, the prompt flow's
MaxSampleds(r) ==
  IF scenario = "commit" THEN {COMMIT_MAX_SAMPLED}
  ELSE IF scenario = "stop" THEN 0..MaxToSample
  ELSE {PROMPT_MAX_SAMPLED}

\* Command::Prompt; client is history (who built it)
Command(p, r, t, m) ==
  [prompt |-> p, responder |-> r, temperature |-> t, max_sampled |-> m,
   client |-> r]

NoCmd == [prompt |-> PromptOfLen(0), responder |-> 0, temperature |-> 0,
          max_sampled |-> 0, client |-> 0]

\* cli.top_p: an Option without default_value; the actor task hands it to
\* every process() call
cli_top_p == None

\* a CompletionRequest: the fields the handler reads, top_p, and
\* max_tokens for the optional fields it does not
NoBody == [prompt |-> None, model |-> None, temperature |-> None,
           top_p |-> None, max_tokens |-> None]

\* the request bodies handler r may be called with: any combination of
\* present and absent fields in the http scenario, a temperature or none
\* in the repro scenario, and otherwise a prompt and a model
Requests(r) ==
  IF scenario = "http"
  THEN [prompt : {None} \cup {Some(p) : p \in Prompts(r)},
        model : {None, Some("codellama-7b")},
        temperature : {None, Some(5)},
        top_p : {None, Some(9)},
        max_tokens : {None, Some(1)}]
  ELSE [prompt : {Some(p) : p \in Prompts(r)},
        model : {Some("codellama-7b")},
        temperature : IF scenario = "repro" THEN {None, Some(5)} ELSE {None},
        top_p : {None}, max_tokens : {None}]

\* the command front end r may send, with the request body it is built
\* from: completion.rs lines 25-36, main.rs lines 191-196, 215-220 and
\* 285-290
Commands(r) ==
  IF FrontEnd(scenario) = "completion"
  THEN {[body |-> b,
         cmd |-> Command(unwrap_or(b.prompt, PromptOfLen(0)), r,
                         unwrap_or(b.temperature, 10), m)] :
          b \in Requests(r), m \in MaxSampleds(r)}
  ELSE {[body |-> NoBody, cmd |-> Command(p, r, Temperature(r), m)] :
          p \in Prompts(r), m \in MaxSampleds(r)}

\* what `git diff --staged` can answer: failure, nothing, a diff of one
\* character
Staged == {[success |-> FALSE, len |-> 0], [success |-> TRUE, len |-> 0],
           [success |-> TRUE, len |-> 1]}

\* the options and the repository `ox commit` may run with; the other
\* scenarios do not read them
Flags(sc) ==
  IF sc = "commit"
  THEN [dry_run : BOOLEAN, all_yes : BOOLEAN, staged : Staged]
  ELSE {[dry_run |-> FALSE, all_yes |-> FALSE,
         staged |-> [success |-> TRUE, len |-> 1]]}

\* a CLI flow that has written, asked and executed nothing
NoCli == [stdout |-> <<>>, last |-> <<>>, spinner |-> "none", asked |-> <<>>,
          commits |-> <<>>, exit |-> None]

\* a command whose sampler does not exist yet
NoRun == [sampler |-> None, draws |-> <<>>]

\* the locals of a process() future that is not running
Idle(pc) == [pc |-> pc, cmd |-> NoCmd, prompt_tokens |-> <<>>,
             all_tokens |-> <<>>, next_token |-> 0, index |-> 0, text |-> <<>>,
             logits |-> <<>>, window |-> <<>>, sampler_input |-> <<>>,
             fed |-> 0]

Running(p) == p.pc \in {"encode", "prompt_forward", "forward", "send"}

\* how a process() future ends: it returns, or one of its three fallible
\* calls panics
Panicked(p) == p.pc \in {"encode_failed", "forward_failed", "send_failed"}

Ended(p) == p.pc = "done" \/ Panicked(p)

(* ------------------------------ LLMBuilder ---------------------------- *)

\* LLMBuilder::new()
new ==
  [tokenizer_repo_id |-> None, tokenizer_repo_revision |-> None,
   tokenizer_file_name |-> None, model_repo_id |-> None,
   model_repo_revision |-> None, model_file_name |-> None,
   state |-> "InitState"]

\* impl LLMBuilder<InitState>
tokenizer_repo_id(self, v) ==
  [tokenizer_repo_id |-> Some(v),
   tokenizer_repo_revision |-> self.tokenizer_repo_revision,
   tokenizer_file_name |-> self.tokenizer_file_name,
   model_repo_id |-> self.model_repo_id,
   model_repo_revision |-> self.model_repo_revision,
   model_file_name |-> self.model_file_name,
   state |-> "WithTokenizerRepoId"]

\* impl LLMBuilder<WithTokenizerRepoId>
model_repo_id(self, v) ==
  [tokenizer_repo_id |-> self.tokenizer_repo_id,
   tokenizer_repo_revision |-> self.tokenizer_repo_revision,
   tokenizer_file_name |-> self.tokenizer_file_name,
   model_repo_id |-> Some(v),
   model_repo_revision |-> self.model_repo_revision,
   model_file_name |-> self.model_file_name,
   state |-> "WithModelRepoId"]

\* a setter that forgets the tokenizer repository
model_file_name_forgetful(self, v) ==
  [tokenizer_repo_id |-> None,
   tokenizer_repo_revision |-> self.tokenizer_repo_revision,
   tokenizer_file_name |-> self.tokenizer_file_name,
   model_repo_id |-> self.model_repo_id,
   model_repo_revision |-> self.model_repo_revision,
   model_file_name |-> Some(v),
   state |-> "ReadyState"]

\* impl LLMBuilder<WithModelRepoId>
model_file_name(self, v) ==
  [tokenizer_repo_id |-> self.tokenizer_repo_id,
   tokenizer_repo_revision |-> self.tokenizer_repo_revision,
   tokenizer_file_name |-> self.tokenizer_file_name,
   model_repo_id |-> self.model_repo_id,
   model_repo_revision |-> self.model_repo_revision,
   model_file_name |-> Some(v),
   state |-> "ReadyState"]

\* impl LLMBuilder<ReadyState>: the optional setters
tokenizer_repo_revision(self, v) ==
  [self EXCEPT !.tokenizer_repo_revision = Some(v)]

tokenizer_file_name(self, v) == [self EXCEPT !.tokenizer_file_name = Some(v)]

model_repo_revision(self, v) == [self EXCEPT !.model_repo_revision = Some(v)]

\* the methods of the impl block of each typestate: a call of a method on a
\* builder in another state does not compile
Methods(state) ==
  IF state = "InitState" THEN {"tokenizer_repo_id"}
  ELSE IF state = "WithTokenizerRepoId" THEN {"model_repo_id"}
  ELSE IF state = "WithModelRepoId" THEN {"model_file_name"}
  ELSE IF state = "ReadyState"
  THEN {"tokenizer_repo_revision", "tokenizer_file_name",
        "model_repo_revision", "build"}
  ELSE {}

\* the method called with v
Call(method, self, v) ==
  IF method = "tokenizer_repo_id" THEN tokenizer_repo_id(self, v)
  ELSE IF method = "model_repo_id" THEN model_repo_id(self, v)
  ELSE IF method = "model_file_name" THEN model_file_name(self, v)
  ELSE IF method = "tokenizer_repo_revision"
  THEN tokenizer_repo_revision(self, v)
  ELSE IF method = "tokenizer_file_name" THEN tokenizer_file_name(self, v)
  ELSE model_repo_revision(self, v)

\* build when every `?` passes: the fields of the LLM; a mandatory field
\* that is None is the Err of its .context(..)?
build(self) ==
  IF ~self.tokenizer_repo_id.some \/ ~self.model_repo_id.some
     \/ ~self.model_file_name.some
  THEN [ok |-> FALSE]
  ELSE [ok |-> TRUE,
        tokenizer_repo_id |-> self.tokenizer_repo_id.val,
        tokenizer_repo_revision |->
          unwrap_or(self.tokenizer_repo_revision, "main"),
        tokenizer_file_name |->
          unwrap_or(self.tokenizer_file_name, "tokenizer.json"),
        model_repo_id |-> self.model_repo_id.val,
        model_repo_revision |-> unwrap_or(self.model_repo_revision, "main"),
        model_file_name |-> self.model_file_name.val]

\* the arguments the setters are called with
BuilderArgs == {"a", "b"}

\* the builder, the argument each method was last called with, and what
\* build returned
BuilderAt(self, given, llm) == [self |-> self, given |-> given, llm |-> llm]

NoneGiven ==
  [m \in {"tokenizer_repo_id", "model_repo_id", "model_file_name",
          "tokenizer_repo_revision", "tokenizer_file_name",
          "model_repo_revision"} |-> None]

\* main.rs lines 105-112: main builds the LLM, with the three mandatory
\* setters, before it spawns the actor; the builder scenario starts at
\* LLMBuilder::new()
BuilderInit(sc) ==
  IF sc = "builder" THEN BuilderAt(new, NoneGiven, None)
  ELSE LET ready == model_file_name(
                      model_repo_id(tokenizer_repo_id(new, "a"), "a"), "a")
       IN BuilderAt(ready,
                    [NoneGiven EXCEPT !["tokenizer_repo_id"] = Some("a"),
                                      !["model_repo_id"] = Some("a"),
                                      !["model_file_name"] = Some("a")],
                    Some(build(ready)))

Init ==
  /\ scenario \in Scenarios
  /\ to_sample \in ToSamples(scenario)
  /\ repeat_last_n \in RepeatLastNs(scenario)
  /\ flags \in Flags(scenario)
  /\ requests = [r \in Clients |-> NoBody]
  /\ events = [r \in Clients |-> <<>>]
  /\ cli = NoCli
  /\ builder = BuilderInit(scenario)
  /\ runLog = [r \in Clients |-> NoRun]
  /\ txDropped = FALSE
  /\ commit_message = <<>>
  /\ submitted = [r \in Clients |-> NoCmd]
  /\ queue = <<>>
  /\ rxDropped = FALSE
  /\ procs = [r \in Clients |-> Idle("idle")]
  /\ chan = [r \in Clients |-> <<>>]
  /\ senderDropped = [r \in Clients |-> FALSE]
  /\ receiverDropped = [r \in Clients |-> FALSE]
  /\ clientPc = [r \in Clients |->
                   IF r \in Present(scenario) THEN "start" ELSE "absent"]
  /\ received = [r \in Clients |-> <<>>]
  /\ fwdLog = <<>>
  /\ produced = [r \in Clients |-> <<>>]
  /\ sent = [r \in Clients |-> <<>>]
  /\ enqueued = <<>>

(* --------------------------- the commit flow -------------------------- *)

\* char::is_whitespace for the characters the vocabulary head uses
IsSpace(c) == c \in {" ", "\n"}

RECURSIVE trim_start(_)
trim_start(s) ==
  IF s # <<>> /\ IsSpace(Head(s)) THEN trim_start(Tail(s)) ELSE s

RECURSIVE trim_end(_)
trim_end(s) ==
  IF s # <<>> /\ IsSpace(s[Len(s)])
  THEN trim_end(SubSeq(s, 1, Len(s) - 1)) ELSE s

\* str::trim
trim(s) == trim_end(trim_start(s))

\* the first group of the regex of line 208
CommitTypes ==
  { <<"b", "u", "i", "l", "d">>, <<"c", "h", "o", "r", "e">>, <<"c", "i">>,
    <<"d", "o", "c", "s">>, <<"f", "e", "a", "t">>, <<"f", "i", "x">>,
    <<"p", "e", "r", "f">>, <<"r", "e", "f", "a", "c", "t", "o", "r">>,
    <<"r", "e", "v", "e", "r", "t">>, <<"s", "t", "y", "l", "e">>,
    <<"t", "e", "s", "t">> }

\* \w
WordChars ==
  {"a", "b", "c", "d", "e", "f", "g", "h", "i", "j", "k", "l", "m", "n", "o",
   "p", "q", "r", "s", "t", "u", "v", "w", "x", "y", "z", "A", "B", "C", "D",
   "E", "F", "G", "H", "I", "J", "K", "L", "M", "N", "O", "P", "Q", "R", "S",
   "T", "U", "V", "W", "X", "Y", "Z", "0", "1", "2", "3", "4", "5", "6", "7",
   "8", "9", "_"}

StartsWith(s, t) == Len(t) <= Len(s) /\ SubSeq(s, 1, Len(t)) = t

\* (\([\w\-\.]+\))? from position i: the positions the match can go on at
AfterScope(s, i) ==
  {i} \cup {j + 1 : j \in {k \in (i + 2)..Len(s) :
                            /\ s[i] = "(" /\ s[k] = ")"
                            /\ \A n \in (i + 1)..(k - 1) :
                                 s[n] \in WordChars \cup {"-", "."}}}

\* (!)? from position i
AfterBang(s, i) == {i} \cup (IF i <= Len(s) /\ s[i] = "!" THEN {i + 1} ELSE {})

\* regex.is_match: the regex is anchored at the start only, and its tail
\* ([\w ])+([\s\S]*) asks for one word character or space
is_match(s) ==
  \E t \in CommitTypes :
    /\ StartsWith(s, t)
    /\ \E i \in AfterScope(s, Len(t) + 1) : \E j \in AfterBang(s, i) :
         /\ j + 2 <= Len(s)
         /\ s[j] = ":" /\ s[j + 1] = " "
         /\ s[j + 2] \in WordChars \cup {" "}

\* a flow that retries whatever the first message is
NeedsRetryAlways(msg) == TRUE

\* line 210: if !regex.is_match(&commit_message)
NeedsRetry(msg) == ~is_match(msg)

\* responder r is the one of the commit flow's first attempt; the retry
\* creates the next one
FirstAttempt(r) == scenario = "commit" /\ r = 1

(* ---------------------------- front ends ------------------------------ *)

\* get_diff: Some(stdout) when git succeeds and prints something
get_diff(staged) ==
  IF staged.success /\ staged.len > 0 THEN Some(staged.len) ELSE None

\* a flow that goes on whatever the diff is
NoDiffNever(diff) == FALSE

\* line 179: there is no diff to summarize
NoDiff(diff) == ~diff.some

\* lines 177-182: the commit flow finds no staged diff, fails the spinner
\* and exits with status 1
CommitNoDiff ==
  /\ scenario = "commit"
  /\ clientPc[1] = "start"
  /\ NoDiff(get_diff(flags.staged))
  /\ cli' = [cli EXCEPT !.spinner = "fail", !.exit = Some(1)]
  /\ clientPc' = [clientPc EXCEPT ![1] = "exited"]
  /\ UNCHANGED <<config, builder, runLog, txDropped, commit_message,
                 submitted, requests, events, queue, rxDropped, procs, chan,
                 senderDropped, receiverDropped, received, fwdLog, produced,
                 sent, enqueued>>

\* a front-end task creates its responder channel and awaits
\* tx.send(Prompt {..}): the send fails when the actor's rx is gone (the
\* unwrap/expect then panics the task), completes when the queue has room
\* and suspends otherwise; the commit flow, which gets here with a diff,
\* then sets commit_message to String::new()
Submit(r) ==
  /\ clientPc[r] = "start"
  /\ ~txDropped
  /\ FirstAttempt(r) => ~NoDiff(get_diff(flags.staged))
  /\ IF rxDropped
     THEN /\ clientPc' = [clientPc EXCEPT ![r] = "panicked"]
          /\ senderDropped' = [senderDropped EXCEPT ![r] = TRUE]
          /\ receiverDropped' = [receiverDropped EXCEPT ![r] = TRUE]
          /\ UNCHANGED <<queue, enqueued, submitted, requests,
                         commit_message>>
     ELSE /\ Len(queue) < QUEUE_CAP
          /\ \E c \in Commands(r) :
               /\ queue' = Append(queue, c.cmd)
               /\ submitted' = [submitted EXCEPT ![r] = c.cmd]
               /\ requests' = [requests EXCEPT ![r] = c.body]
          /\ enqueued' = Append(enqueued, r)
          /\ clientPc' = [clientPc EXCEPT ![r] = "receiving"]
          /\ commit_message' = <<>>
          /\ UNCHANGED <<senderDropped, receiverDropped>>
  /\ UNCHANGED <<config, builder, runLog, txDropped, events, cli, rxDropped,
                 procs, chan, received, fwdLog, produced, sent>>

\* body.model.clone().unwrap_or("unknown") answered without the body
model_unknown(body) == "unknown"

\* line 58: the model of the envelope
model_of(body) == unwrap_or(body.model, "unknown")

\* lines 51-71: the Completion serialized into an event's data; `created`,
\* the time of the event, is left out
Envelope(body, text) ==
  [id |-> "cmpl-",
   object |-> "text_completion",
   model |-> model_of(body),
   choices |-> << [text |-> text, index |-> 0, logprobs |-> None,
                   finish_reason |-> Some("stop")] >>,
   usage |-> [prompt_tokens |-> 0, completion_tokens |-> 0,
              total_tokens |-> 0],
   system_fingerprint |-> ""]

\* a stream that yields every fragment twice
YieldTwice(evts, body, text) ==
  evts \o <<Envelope(body, text), Envelope(body, text)>>

\* lines 43-74: the stream yields one event for the fragment
Yield(evts, body, text) == Append(evts, Envelope(body, text))

\* receiver.recv().await returns Some(text): the completion route yields an
\* event, the commit flow appends the text to commit_message, the prompt
\* flow prints it and keeps it as `last`
ClientRecv(r) ==
  /\ clientPc[r] = "receiving"
  /\ chan[r] # <<>>
  /\ received' = [received EXCEPT ![r] = Append(@, Head(chan[r]))]
  /\ chan' = [chan EXCEPT ![r] = Tail(@)]
  /\ commit_message' = IF scenario = "commit"
                       THEN commit_message \o Head(chan[r]).text
                       ELSE commit_message
  /\ events' = IF FrontEnd(scenario) = "completion"
               THEN [events EXCEPT
                       ![r] = Yield(@, requests[r], Head(chan[r]).text)]
               ELSE events
  /\ cli' = IF FrontEnd(scenario) = "prompt"
            THEN [cli EXCEPT !.stdout = @ \o Head(chan[r]).text,
                             !.last = Head(chan[r]).text]
            ELSE cli
  /\ UNCHANGED <<config, builder, runLog, txDropped, submitted, requests,
                 queue, rxDropped, procs, senderDropped, receiverDropped,
                 clientPc, fwdLog, produced, sent, enqueued>>

\* a flow that never ends the output
NeedsNewlineNever(last) == FALSE

\* line 301: if last != "\n"
NeedsNewline(last) == last # <<"\n">>

\* a recv() that returns None as soon as the buffer is empty
RecvNoneEarly(r) == chan[r] = <<>>

\* Receiver::recv returns None: the buffer is empty and the Sender is
\* dropped
RecvNone(r) == chan[r] = <<>> /\ senderDropped[r]

\* receiver.recv().await returns None: the buffer is empty and the Sender
\* is dropped; the while-let loop ends and the receiver goes out of scope;
\* the stream of the completion route ends.  The commit flow's first
\* attempt then trims commit_message and, when the regex does not match
\* it, goes on to the retry (lines 207-214); the prompt flow prints a
\* newline unless the last fragment is one (lines 301-304)
ClientClosed(r) ==
  /\ clientPc[r] = "receiving"
  /\ RecvNone(r)
  /\ IF FirstAttempt(r)
     THEN /\ commit_message' = trim(commit_message)
          /\ clientPc' = [clientPc EXCEPT
               ![r] = "done",
               ![r + 1] = IF NeedsRetry(trim(commit_message))
                          THEN "start" ELSE @]
     ELSE /\ clientPc' = [clientPc EXCEPT ![r] = "done"]
          /\ UNCHANGED commit_message
  /\ cli' = IF FrontEnd(scenario) = "prompt" /\ NeedsNewline(cli.last)
            THEN [cli EXCEPT !.stdout = Append(@, "\n")]
            ELSE cli
  /\ receiverDropped' = [receiverDropped EXCEPT ![r] = TRUE]
  /\ UNCHANGED <<config, builder, runLog, txDropped, submitted, requests,
                 events, queue, rxDropped, procs, chan, senderDropped,
                 received, fwdLog, produced, sent, enqueued>>

\* the HTTP client disconnects: axum drops the SSE stream and the receiver
\* it owns; what is still buffered is discarded
ClientDisconnect(r) ==
  /\ clientPc[r] = "receiving"
  /\ FrontEnd(scenario) \in {"completion", "library"}
  /\ clientPc' = [clientPc EXCEPT ![r] = "disconnected"]
  /\ receiverDropped' = [receiverDropped EXCEPT ![r] = TRUE]
  /\ chan' = [chan EXCEPT ![r] = <<>>]
  /\ UNCHANGED <<config, builder, runLog, front, queue, rxDropped, procs,
                 senderDropped, received, fwdLog, produced, sent, enqueued>>

\* a flow that commits whatever the options are
CommitsAlways(fl) == TRUE

\* line 232: if !*dry_run
Commits(fl) == ~fl.dry_run

\* commit_then_exit: `git commit -m msg` is executed, and the process
\* exits with status 0 when git succeeds and panics otherwise
commit_then_exit(c, msg, git_ok) ==
  [c EXCEPT !.commits = Append(@, msg),
            !.exit = Some(IF git_ok THEN 0 ELSE PANIC_STATUS)]

\* a question put to the user, and the answer
Asked(c, prompt, answer) ==
  [c EXCEPT !.asked = Append(@, [prompt |-> prompt, answer |-> answer])]

\* lines 231-262 for a user who answers the Select with choice and the
\* Text with edited, and a git that succeeds or not
CommitEnd(c, fl, msg, choice, edited, git_ok) ==
  LET generated == [c EXCEPT !.spinner = "success"]
      selected == Asked(generated, "Select", choice)
      texted == Asked(selected, "Text", edited)
  IN IF ~Commits(fl) THEN generated
     ELSE IF fl.all_yes THEN commit_then_exit(generated, msg, git_ok)
     ELSE IF ~choice.some THEN [selected EXCEPT !.exit = Some(1)]
     ELSE IF choice.val = "Commit" THEN commit_then_exit(selected, msg, git_ok)
     ELSE IF edited.some THEN commit_then_exit(texted, edited.val, git_ok)
     ELSE [texted EXCEPT !.exit = Some(0)]

\* the commit flow is at line 231: its first attempt is over, and so is
\* the retry if there was one
Generated ==
  /\ scenario = "commit"
  /\ clientPc[1] = "done"
  /\ clientPc[2] \in {"absent", "done"}

\* what the user can type into the Text prompt, whose initial value is
\* msg: Ok with the message as it is or with another one, or ctrl-c
Edits(msg) == {Some(msg), Some(<<"e">>), None}

\* lines 231-262: the spinner reports the message, and the flow commits
\* it, asks the user first, or only reports it
CommitFinish ==
  /\ Generated
  /\ cli.spinner = "none"
  /\ \E choice \in {Some("Commit"), Some("Edit"), None},
        edited \in Edits(commit_message), git_ok \in BOOLEAN :
       cli' = CommitEnd(cli, flags, commit_message, choice, edited, git_ok)
  /\ UNCHANGED <<config, builder, runLog, txDropped, commit_message,
                 submitted, requests, events, queue, rxDropped, procs, chan,
                 senderDropped, receiverDropped, clientPc, received, fwdLog,
                 produced, sent, enqueued>>

\* a front-end task that is over, or was never there
Finished(r) ==
  clientPc[r] \in {"absent", "done", "panicked", "disconnected", "exited"}

\* main has nothing left to do: the commit flow is past line 262
FlowsOver ==
  /\ \A r \in Clients : Finished(r)
  /\ scenario = "commit" /\ clientPc[1] = "done" => cli.spinner = "success"

\* main returns and its Sender of the command queue is dropped: when
\* axum::serve returns, at any time in the shutdown scenario, and
\* otherwise when the front-end flows are over; a process that has
\* exited or whose LLM is not built (main is at line 112) does not get here
MainDropsTx ==
  /\ ~txDropped
  /\ ~cli.exit.some
  /\ builder.llm.some /\ builder.llm.val.ok
  /\ scenario = "shutdown" \/ FlowsOver
  /\ txDropped' = TRUE
  /\ UNCHANGED <<config, builder, runLog, commit_message, submitted,
                 requests, events, cli, queue, rxDropped, procs, chan,
                 senderDropped, receiverDropped, clientPc, received, fwdLog,
                 produced, sent, enqueued>>

\* a method of the builder's typestate, build excepted, is called
BuilderCall ==
  /\ ~builder.llm.some
  /\ \E m \in Methods(builder.self.state) \ {"build"}, v \in BuilderArgs :
       builder' = BuilderAt(Call(m, builder.self, v),
                            [builder.given EXCEPT ![m] = Some(v)],
                            builder.llm)
  /\ UNCHANGED <<config, runLog, front, queue, rxDropped, procs, chan,
                 senderDropped, receiverDropped, clientPc, received, fwdLog,
                 produced, sent, enqueued>>

\* build consumes the builder and returns the LLM, or the Err of a
\* download or of a file that cannot be read
BuilderBuild ==
  /\ ~builder.llm.some
  /\ "build" \in Methods(builder.self.state)
  /\ \E io_ok \in BOOLEAN :
       builder' = [builder EXCEPT
                     !.llm = Some(IF io_ok THEN build(builder.self)
                                  ELSE [ok |-> FALSE])]
  /\ UNCHANGED <<config, runLog, front, queue, rxDropped, procs, chan,
                 senderDropped, receiverDropped, clientPc, received, fwdLog,
                 produced, sent, enqueued>>

(* ------------------------------ the actor ----------------------------- *)

\* a queue that hands out the newest command first
DequeueNewest(q) == [cmd |-> q[Len(q)], rest |-> SubSeq(q, 1, Len(q) - 1)]

\* rx.recv() hands out the oldest command
Dequeue(q) == [cmd |-> Head(q), rest |-> Tail(q)]

\* an actor that spawns process() instead of awaiting it
ActorAtRecvSpawning == TRUE

\* the actor is at rx.recv().await only when the process() future it
\* awaits has returned: `process(..).await` inside the while-let loop
ActorAtRecv == \A r \in Clients : ~Running(procs[r])

\* `while let Some(cmd) = rx.recv().await`, then the call of process()
ActorRecv ==
  /\ ~rxDropped
  /\ ActorAtRecv
  /\ queue # <<>>
  /\ LET d == Dequeue(queue) IN
       /\ queue' = d.rest
       /\ procs' = [procs EXCEPT ![d.cmd.client] =
                      [Idle("encode") EXCEPT !.cmd = d.cmd]]
  /\ UNCHANGED <<config, builder, runLog, front, rxDropped, chan, senderDropped,
                 receiverDropped, clientPc, received, fwdLog, produced, sent,
                 enqueued>>

\* every Sender of the command queue is dropped: main's, and the clone
\* each completion handler holds until its stream ends
QueueClosed ==
  txDropped /\ \A r \in Clients : clientPc[r] # "receiving"

\* rx.recv().await returns None, the while-let loop ends and the actor
\* task returns, dropping rx and llm
ActorExit ==
  /\ ~rxDropped
  /\ ActorAtRecv
  /\ queue = <<>>
  /\ QueueClosed
  /\ rxDropped' = TRUE
  /\ UNCHANGED <<config, builder, runLog, front, queue, procs, chan, senderDropped,
                 receiverDropped, clientPc, received, fwdLog, produced, sent,
                 enqueued>>

\* an unwinding that drops no responder
DroppedByPanicNone == {}

\* the responders dropped when the actor task unwinds: the one of the
\* running command, and those of the commands still in the queue
DroppedByPanic ==
  {procs[r].cmd.responder : r \in {c \in Clients : Running(procs[c])}}
    \cup {queue[i].responder : i \in 1..Len(queue)}

\* a panic inside process() (todo!(), unwrap() on Err) unwinds the actor
\* task: tokio catches it at the task boundary, the JoinHandle is not
\* awaited, and everything the task owns is dropped: llm, rx with the
\* queued commands, the running command's responder
Panic(r, failed) ==
  /\ procs' = [c \in Clients |->
                 IF Running(procs[c]) THEN Idle(failed) ELSE procs[c]]
  /\ rxDropped' = TRUE
  /\ queue' = <<>>
  /\ senderDropped' = [c \in Clients |->
                         senderDropped[c] \/ c \in DroppedByPanic]

\* a process() that returns while a clone of the responder lives on
ReturnKeepingSender(r) ==
  /\ procs' = [procs EXCEPT ![r] = Idle("done")]
  /\ UNCHANGED <<queue, rxDropped, senderDropped>>

\* process() returns: its locals, the responder among them, are dropped
Return(r) ==
  /\ procs' = [procs EXCEPT ![r] = Idle("done")]
  /\ senderDropped' = [senderDropped EXCEPT ![procs[r].cmd.responder] = TRUE]
  /\ UNCHANGED <<queue, rxDropped>>

\* LogitsProcessor::new: the sampler's configuration; its generator is
\* StdRng::seed_from_u64(seed)
LogitsProcessor_new(seed, temperature, top_p) ==
  [seed |-> seed, temperature |-> temperature, top_p |-> top_p]

\* a generator that lives on from one run to the next: the values it has
\* yielded to any run
SamplerDrawsShared(r) == Len(fwdLog)

\* the number of values the generator of run r's sampler has yielded: the
\* sampler is a local of process() (line 68), and each sample draws once
SamplerDraws(r) == Len(runLog[r].draws)

\* one call of logits_processor.sample, as the history records it: the
\* sampler, the state of its generator, the logits, the token returned
Draw(r, logits, tok) ==
  [sampler |-> runLog[r].sampler, n |-> SamplerDraws(r), logits |-> logits,
   tok |-> tok]

\* the scenarios that keep the history of the samplers; in the others the
\* sampler answers any token the model can answer
Logged(sc) == sc \in {"http", "repro"}

\* the history once process() has constructed run r's sampler
NewRun(r, sampler) ==
  IF Logged(scenario)
  THEN [runLog EXCEPT ![r] = [sampler |-> Some(sampler), draws |-> <<>>]]
  ELSE runLog

\* the history once run r's sampler has answered tok for logits
Drawn(r, logits, tok) ==
  IF Logged(scenario)
  THEN [runLog EXCEPT ![r].draws = Append(@, Draw(r, logits, tok))]
  ELSE runLog

\* every call of sample so far
AllDraws ==
  UNION {{runLog[c].draws[i] : i \in 1..Len(runLog[c].draws)} : c \in Clients}

\* logits_processor.sample(&logits) for run r: one of the tokens the
\* model can answer, and the token a sampler with the same configuration
\* and generator state returned for the same logits, if it is known
sample(r, logits) ==
  {tok \in Samples(Len(procs[r].all_tokens)) :
     \A d \in AllDraws :
       (/\ d.sampler = runLog[r].sampler
        /\ d.n = SamplerDraws(r)
        /\ d.logits = logits) => d.tok = tok}

\* lines 53-68: encode the prompt, cut the window and construct the
\* sampler; Err is todo!()
ProcEncode(r) ==
  /\ procs[r].pc = "encode"
  /\ \/ /\ procs' = [procs EXCEPT
                 ![r].pc = "prompt_forward",
                 ![r].prompt_tokens =
                    Truncate(Encode(procs[r].cmd.prompt), to_sample)]
        /\ runLog' = NewRun(r, LogitsProcessor_new(
                           SEED, Some(procs[r].cmd.temperature), cli_top_p))
        /\ UNCHANGED <<queue, rxDropped, senderDropped>>
     \/ Panic(r, "encode_failed") /\ UNCHANGED runLog
  /\ UNCHANGED <<config, builder, front, chan, receiverDropped, clientPc,
                 received, fwdLog, produced, sent, enqueued>>

\* a call of model_weights.forward, as the history records it
ForwardCall(r, n, pos) == [run |-> r, len |-> n, pos |-> pos]

\* a loop that runs once more: 0..=to_sample
AfterStepInclusive(r, p) ==
  IF p.index <= to_sample
  THEN /\ procs' = [procs EXCEPT ![r] = [p EXCEPT !.pc = "forward"]]
       /\ UNCHANGED <<queue, rxDropped, senderDropped>>
  ELSE Return(r)

\* the loop `for index in 0..to_sample` goes on, or process() returns
AfterStep(r, p) ==
  IF p.index < to_sample
  THEN /\ procs' = [procs EXCEPT ![r] = [p EXCEPT !.pc = "forward"]]
       /\ UNCHANGED <<queue, rxDropped, senderDropped>>
  ELSE Return(r)

\* lines 67-78: the forward pass over the whole window at position 0 and
\* the first sample, which is pushed on all_tokens; Err is unwrap()ped
ProcPromptForward(r) ==
  /\ procs[r].pc = "prompt_forward"
  /\ fwdLog' = Append(fwdLog, ForwardCall(r, Len(procs[r].prompt_tokens), 0))
  /\ \/ LET logits == forward(
                           IF procs[r].prompt_tokens = <<>> THEN 0
                           ELSE procs[r].prompt_tokens[
                                  Len(procs[r].prompt_tokens)], 0)
        IN \E tok \in sample(r, logits) :
             /\ AfterStep(r, [procs[r] EXCEPT
                                !.logits = logits,
                                !.sampler_input = logits,
                                !.next_token = tok,
                                !.all_tokens = <<tok>>,
                                !.index = 0])
             /\ runLog' = Drawn(r, logits, tok)
     \/ Panic(r, "forward_failed") /\ UNCHANGED runLog
  /\ UNCHANGED <<config, builder, front, chan, receiverDropped, clientPc,
                 received, produced, sent, enqueued>>

\* a position that counts the loop's tokens only
PositionOfIndex(p) == p.index

\* line 86: prompt_tokens.len() + index
Position(p) == Len(p.prompt_tokens) + p.index

\* lines 80-97: one token, next_token, forward at prompt_tokens.len() +
\* index, the repeat penalty, whose result `let _ =` discards, the sample
\* from the logits of forward, the push and the text; Err is unwrap()ped;
\* fed is history
ProcForward(r) ==
  /\ procs[r].pc = "forward"
  /\ fwdLog' = Append(fwdLog, ForwardCall(r, 1, Position(procs[r])))
  /\ \/ LET logits == forward(procs[r].next_token, Position(procs[r]))
        IN \E tok \in sample(r, logits) :
          /\ procs' = [procs EXCEPT
               ![r].fed = procs[r].next_token,
               ![r].logits = logits,
               ![r].window =
                  PenaltyContext(procs[r].all_tokens, repeat_last_n),
               ![r].sampler_input = logits,
               ![r].next_token = tok,
               ![r].all_tokens = Append(@, tok),
               ![r].text = token_to_text(tok),
               ![r].pc = "send"]
          /\ produced' = [produced EXCEPT ![r] = Append(@, token_to_text(tok))]
          /\ runLog' = Drawn(r, logits, tok)
          /\ UNCHANGED <<queue, rxDropped, senderDropped>>
     \/ Panic(r, "forward_failed") /\ UNCHANGED <<produced, runLog>>
  /\ UNCHANGED <<config, builder, front, chan, receiverDropped, clientPc,
                 received, sent, enqueued>>

\* a responder mixed up with the next client's
SendTargetOther(c) == (c.responder % NumClients) + 1

\* the channel a command's fragments go to
SendTarget(c) == c.responder

\* try_send with its error ignored: a full buffer loses the fragment
SendOutcomeLossy(buf, frag) ==
  [blocked |-> FALSE,
   buf |-> IF Len(buf) >= RESPONDER_CAP THEN buf ELSE Append(buf, frag)]

\* Sender::send on a bounded channel: it waits while the buffer is full
SendOutcome(buf, frag) ==
  [blocked |-> Len(buf) >= RESPONDER_CAP, buf |-> Append(buf, frag)]

\* line 98: responder.send(text).await.unwrap(); run is history
ProcSend(r) ==
  /\ procs[r].pc = "send"
  /\ LET t == SendTarget(procs[r].cmd)
         out == SendOutcome(chan[t], [text |-> procs[r].text, run |-> r])
     IN IF receiverDropped[t]
        THEN Panic(r, "send_failed") /\ UNCHANGED <<chan, sent>>
        ELSE /\ ~out.blocked
             /\ chan' = [chan EXCEPT ![t] = out.buf]
             /\ sent' = [sent EXCEPT ![r] = Append(@, procs[r].text)]
             /\ AfterStep(r, [procs[r] EXCEPT !.index = @ + 1, !.text = <<>>])
  /\ UNCHANGED <<config, builder, runLog, front, receiverDropped, clientPc, received,
                 fwdLog, produced, enqueued>>

Next ==
  \/ BuilderCall
  \/ BuilderBuild
  \/ CommitNoDiff
  \/ CommitFinish
  \/ \E r \in Clients : Submit(r)
  \/ \E r \in Clients : ClientRecv(r)
  \/ \E r \in Clients : ClientClosed(r)
  \/ \E r \in Clients : ClientDisconnect(r)
  \/ MainDropsTx
  \/ ActorRecv
  \/ ActorExit
  \/ \E r \in Clients : ProcEncode(r)
  \/ \E r \in Clients : ProcPromptForward(r)
  \/ \E r \in Clients : ProcForward(r)
  \/ \E r \in Clients : ProcSend(r)

Spec == Init /\ [][Next]_vars

(* ----------------------- the protocol under fairness ------------------ *)

\* the HTTP scenarios in which every producer drains its responder channel
\* until it closes: several producers, and one whose channel fills up
LiveInit == Init /\ scenario \in {"concurrent", "backpressure"}

\* the steps of the actor task and of the producers that stay connected
LiveNext ==
  \/ \E r \in Clients : Submit(r)
  \/ \E r \in Clients : ClientRecv(r)
  \/ \E r \in Clients : ClientClosed(r)
  \/ MainDropsTx
  \/ ActorRecv
  \/ ActorExit
  \/ \E r \in Clients : ProcEncode(r)
  \/ \E r \in Clients : ProcPromptForward(r)
  \/ \E r \in Clients : ProcForward(r)
  \/ \E r \in Clients : ProcSend(r)

\* the steps of the actor task: at most one of them is enabled at a time
ActorTask ==
  \/ ActorRecv
  \/ ActorExit
  \/ \E r \in Clients :
       ProcEncode(r) \/ ProcPromptForward(r) \/ ProcForward(r) \/ ProcSend(r)

\* the steps of the task of producer r
ProducerTask(r) == Submit(r) \/ ClientRecv(r) \/ ClientClosed(r)

\* the tokio runtime polls every task that can make progress: the actor
\* task and each producer
LiveFairness ==
  /\ WF_vars(ActorTask)
  /\ \A r \in Clients : WF_vars(ProducerTask(r))

LiveSpec == LiveInit /\ [][LiveNext]_vars /\ LiveFairness

(* ------------------------------ properties ---------------------------- *)

\* the texts of a sequence of fragments
Texts(frags) == [i \in 1..Len(frags) |-> frags[i].text]

\* client a's command was accepted by the queue before client b's
EnqueuedBefore(a, b) ==
  \E i, j \in 1..Len(enqueued) : i < j /\ enqueued[i] = a /\ enqueued[j] = b

\* the actor has received r's command
Dequeued(r) == procs[r].pc # "idle"

\* a forward call or a send has happened for r's command
Touched(r) ==
  \/ \E i \in 1..Len(fwdLog) : fwdLog[i].run = r
  \/ sent[r] # <<>>

\* C1: commands are served one at a time in the order they were enqueued:
\* when a was enqueued before b, then b is dequeued, and a forward call or
\* a send happens for b, only after a's run has ended, by return or panic.
C1_FifoOneAtATime ==
  \A a, b \in Clients :
    (EnqueuedBefore(a, b) /\ (Dequeued(b) \/ Touched(b))) => Ended(procs[a])

\* a was enqueued first and has returned after sending; b, enqueued
\* second, is in its run and has called forward
C1_Witness ==
  \E a, b \in Clients :
    /\ EnqueuedBefore(a, b)
    /\ procs[a].pc = "done" /\ sent[a] # <<>>
    /\ procs[b].pc = "send"

\* C2: the model is used by one run at a time: at most one process() is
\* in progress, only the run in progress adds forward calls, and the
\* forward calls of two runs never interleave (once the history moves on
\* to another run, no later call belongs to the run it left).
C2_ForwardNeverInterleaves ==
  /\ Cardinality({r \in Clients : Running(procs[r])}) <= 1
  /\ \A i \in 1..(Len(fwdLog) - 1) :
       fwdLog[i].run # fwdLog[i + 1].run
         => \A k \in (i + 2)..Len(fwdLog) : fwdLog[k].run # fwdLog[i].run
  /\ \A r \in Clients :
       (Len(fwdLog) > 0 /\ Running(procs[r]) /\ procs[r].pc # "encode"
          /\ procs[r].pc # "prompt_forward")
         => fwdLog[Len(fwdLog)].run = r

\* two runs have each made their prompt forward call and a loop forward
\* call
C2_Witness ==
  \E a, b \in Clients :
    /\ a # b
    /\ \A r \in {a, b} :
         Cardinality({i \in 1..Len(fwdLog) : fwdLog[i].run = r}) >= 2

\* C3: every fragment buffered in, or received from, a client's responder
\* channel was generated by the run of that client's own command.
C3_Isolation ==
  \A c \in Clients :
    /\ \A i \in 1..Len(chan[c]) : chan[c][i].run = c
    /\ \A i \in 1..Len(received[c]) : received[c][i].run = c

\* two clients are served at the same time: each still consumes its
\* channel, and each channel holds a fragment of its own run
C3_Witness ==
  \E a, b \in Clients :
    a # b /\ chan[a] # <<>> /\ chan[b] # <<>> /\ clientPc[a] = "receiving"
      /\ clientPc[b] = "receiving"

\* the text process() holds at line 98 while the send has not completed
Pending(r) == IF procs[r].pc = "send" THEN <<procs[r].text>> ELSE <<>>

\* C4: no fragment is lost to a slow consumer: while a client still
\* consumes its channel, what it has received, followed by what the
\* channel buffers, followed by the text the actor is waiting to send, is
\* exactly the sequence of texts the decode loop computed, in order; the
\* buffer never exceeds the channel's capacity.
C4_BackPressureNoLoss ==
  \A r \in Clients :
    /\ Len(chan[r]) <= RESPONDER_CAP
    /\ clientPc[r] \in {"receiving", "done"}
         => Texts(received[r]) \o Texts(chan[r]) \o Pending(r) = produced[r]

\* the channel is full and the actor is suspended on the send of one more
\* fragment
C4_Witness ==
  \E r \in Clients :
    /\ Len(chan[r]) = RESPONDER_CAP
    /\ procs[r].pc = "send"
    /\ clientPc[r] = "receiving"
    /\ Len(produced[r]) = RESPONDER_CAP + 1

\* a client whose command the queue accepted, or will accept, and that
\* stays to the end gets a completed run
Served(b) == clientPc[b] # "panicked" /\ (clientPc[b] = "done" => procs[b].pc = "done")

\* C5: a forward failure in a's run leaves the actor running, and every
\* other client is still served.
C5_ForwardFailureContained ==
  \A a \in Clients :
    procs[a].pc = "forward_failed"
      => ~rxDropped /\ \A b \in Clients \ {a} : Served(b)

\* C6: an encode failure in a's run sends nothing, closes a's responder
\* channel and leaves the actor running, every other client still served.
C6_EncodeFailureScoped ==
  \A a \in Clients :
    procs[a].pc = "encode_failed"
      => /\ sent[a] = <<>>
         /\ senderDropped[a]
         /\ ~rxDropped
         /\ \A b \in Clients \ {a} : Served(b)

\* C7: a send that finds the receiver dropped ends a's run only: the
\* actor keeps its queue and goes on to serve the other clients.
C7_ConsumerDropCancelsOnlyThatRequest ==
  \A a \in Clients :
    procs[a].pc = "send_failed"
      => ~rxDropped /\ \A b \in Clients \ {a} : Served(b)

\* the tokens of r's run fed to forward up to and including call i
RECURSIVE Fed(_)
Fed(i) ==
  IF i = 0 THEN 0
  ELSE Fed(i - 1) + fwdLog[i].len

\* the tokens fed by the calls of the same run up to and including call i
FedOfRun(i) ==
  Fed(i) - Fed((CHOOSE j \in 1..i :
                  /\ fwdLog[j].run = fwdLog[i].run
                  /\ \A k \in 1..(j - 1) : fwdLog[k].run # fwdLog[i].run) - 1)

\* C8: no forward call has a position, or brings the tokens fed in its
\* run to a total, above MAX_SEQ_LEN.
C8_WithinMaxSeqLen ==
  \A i \in 1..Len(fwdLog) :
    fwdLog[i].pos <= MAX_SEQ_LEN /\ FedOfRun(i) <= MAX_SEQ_LEN

\* s is the tail of t
IsSuffix(s, t) ==
  Len(s) <= Len(t) /\ s = SubSeq(t, Len(t) - Len(s) + 1, Len(t))

\* r's run has cut its window
Windowed(r) == procs[r].pc \in {"prompt_forward", "forward", "send"}

\* the window is a tail of the encoded prompt and keeps its newest token
KeepsNewest(r) ==
  LET enc == Encode(procs[r].cmd.prompt)
      w == procs[r].prompt_tokens
  IN /\ IsSuffix(w, enc)
     /\ enc # <<>> => (w # <<>> /\ w[Len(w)] = enc[Len(enc)])

\* C9 as stated: the window is a tail of the encoded prompt that keeps
\* its newest token, and is the whole encoded prompt whenever the prompt
\* length plus to_sample is at most MAX_SEQ_LEN.
C9_WholeWhenFitsWindow ==
  \A r \in Clients :
    Windowed(r) =>
      /\ KeepsNewest(r)
      /\ Len(Encode(procs[r].cmd.prompt)) + to_sample <= MAX_SEQ_LEN
           => procs[r].prompt_tokens = Encode(procs[r].cmd.prompt)

\* C9 amended: the window is a tail of the encoded prompt that keeps its
\* newest token, and is the whole encoded prompt whenever the prompt
\* length plus to_sample is at most MAX_SEQ_LEN - 10.
C9_SuffixWholeWithinMargin ==
  \A r \in Clients :
    Windowed(r) =>
      /\ KeepsNewest(r)
      /\ Len(Encode(procs[r].cmd.prompt)) + to_sample <= MAX_SEQ_LEN - 10
           => procs[r].prompt_tokens = Encode(procs[r].cmd.prompt)

\* a prompt over the margin has lost its oldest tokens and kept its
\* newest ones
C9_Witness ==
  \E r \in Clients :
    /\ Windowed(r)
    /\ procs[r].prompt_tokens # <<>>
    /\ Len(procs[r].prompt_tokens) < Len(Encode(procs[r].cmd.prompt))

\* C10: the first sampled token is emitted first: once a run is past its
\* first single-token forward call, or has returned, it has sent a
\* fragment, and the first fragment sent is the text of the first token
\* pushed on all_tokens.
C10_FirstTokenEmittedFirst ==
  \A r \in Clients :
    /\ procs[r].pc \in {"send", "done"} => sent[r] # <<>>
    /\ (procs[r].pc \in {"forward", "send"} /\ sent[r] # <<>>)
         => sent[r][1] = token_to_text(procs[r].all_tokens[1])

\* the fragments r's run has emitted
Emitted(r) == Len(sent[r])

\* C11: a run whose command carries max_sampled = 0 has sent exactly one
\* fragment when it returns, and no run ever has more fragments sent than
\* its command's max_sampled (one, when max_sampled is 0).
C11_StopsAtMaxSampled ==
  \A r \in Clients :
    LET m == submitted[r].max_sampled IN
      /\ (procs[r].pc = "done" /\ m = 0) => Emitted(r) = 1
      /\ Emitted(r) <= (IF m = 0 THEN 1 ELSE m)

\* C12: a run in progress has sampled no "</s>" in a loop step (the run
\* stops at that step), and no fragment sent is the text of "</s>".
C12_StopsAtEos ==
  \A r \in Clients :
    /\ Running(procs[r]) =>
         \A i \in 2..Len(procs[r].all_tokens) :
           procs[r].all_tokens[i] # token_to_id(eos_token)
    /\ \A i \in 1..Len(sent[r]) :
         sent[r][i] # token_to_text(token_to_id(eos_token))

\* the forward calls made for r's command
Forwards(r) == Cardinality({i \in 1..Len(fwdLog) : fwdLog[i].run = r})

\* C13: whatever is sampled, a request causes at most 1 + to_sample
\* forward calls and at most to_sample fragments, and its loop index
\* never passes to_sample.
C13_LoopBounded ==
  \A r \in Clients :
    /\ Forwards(r) <= 1 + to_sample
    /\ Emitted(r) <= to_sample
    /\ procs[r].index <= to_sample

\* a run has returned after the full to_sample >= 2 iterations, one of
\* which sampled "</s>"
C13_Witness ==
  \E r \in Clients :
    /\ procs[r].pc = "done"
    /\ to_sample >= 2
    /\ Forwards(r) = 1 + to_sample
    /\ Emitted(r) = to_sample
    /\ \E i \in 1..Len(sent[r]) :
         sent[r][i] = token_to_text(token_to_id(eos_token))

Min(a, b) == IF a <= b THEN a ELSE b

\* the tokens r's run had generated before the step it is in
HistoryBeforeStep(r) ==
  SubSeq(procs[r].all_tokens, 1, Len(procs[r].all_tokens) - 1)

\* C14: at every loop step the window handed to the repeat penalty is
\* the tail of the tokens generated so far and has length
\* min(number of generated tokens, repeat_last_n).
C14_PenaltyWindowBounded ==
  \A r \in Clients :
    procs[r].pc = "send" =>
      /\ IsSuffix(procs[r].window, HistoryBeforeStep(r))
      /\ Len(procs[r].window) = Min(Len(HistoryBeforeStep(r)), repeat_last_n)

\* a step whose history is longer than a positive repeat_last_n: the
\* window is cut to repeat_last_n tokens
C14_Witness ==
  \E r \in Clients :
    /\ procs[r].pc = "send"
    /\ repeat_last_n > 0
    /\ Len(HistoryBeforeStep(r)) > repeat_last_n
    /\ Len(procs[r].window) = repeat_last_n

\* C15: at every loop step the logits handed to the sampler are the
\* logits of forward with the repeat penalty applied over the window.
C15_SamplesPenalisedLogits ==
  \A r \in Clients :
    procs[r].pc = "send" =>
      procs[r].sampler_input =
        apply_repeat_penalty(procs[r].logits, REPEAT_PENALTY, procs[r].window)

\* C16: a responder channel carries the fragments of one run only and is
\* closed once, when that run stops: a dropped sender stays dropped and
\* nothing is sent on the channel afterwards, the sender is not dropped
\* while the run is in progress, and it is dropped when the run has ended.
C16_ClosedOnceWhenRunStops ==
  [][\A c \in Clients :
       /\ senderDropped[c] =>
            /\ senderDropped'[c]
            /\ sent'[c] = sent[c]
            /\ Len(chan'[c]) <= Len(chan[c])
       /\ \A i \in 1..Len(chan'[c]) : chan'[c][i].run = c
       /\ Running(procs'[c]) => ~senderDropped'[c]
       /\ Ended(procs'[c]) => senderDropped'[c]]_vars

\* a run has returned after sending, its consumer has seen the close,
\* and the actor is sending for the next command
C16_Witness ==
  \E c, d \in Clients :
    /\ c # d
    /\ procs[c].pc = "done" /\ senderDropped[c] /\ sent[c] # <<>>
    /\ clientPc[c] = "done" /\ Texts(received[c]) = sent[c]
    /\ procs[d].pc = "send" /\ chan[d] # <<>>


\* the queue has accepted a command sent with responder r
Accepted(r) == submitted[r] # NoCmd

\* C17: when the run of an accepted command has returned and its
\* consumer, which kept receiving, has seen the channel closed, the
\* consumer has received at least one fragment.
C17_FragmentThenClose ==
  \A r \in Clients :
    (Accepted(r) /\ procs[r].pc = "done" /\ clientPc[r] = "done")
      => received[r] # <<>>

\* C18: the actor has terminated only when the command queue is closed
\* and drained, and then every command the queue accepted has been
\* processed to the end of its run.
C18_ExitsOnlyClosedAndDrained ==
  rxDropped =>
    /\ QueueClosed
    /\ queue = <<>>
    /\ \A r \in Clients : Accepted(r) => procs[r].pc = "done"

\* how many times the queue holds the command sent with responder r
InQueue(r) == Cardinality({i \in 1..Len(queue) : queue[i].responder = r})

\* C19: the queue never holds more than its capacity, and every command
\* it accepted is either still in it, once, or was consumed by the actor,
\* once: none is dropped and none is duplicated.
C19_AdmittedExactlyOnce ==
  /\ Len(queue) <= QUEUE_CAP
  /\ \A r \in Clients :
       /\ Accepted(r) => InQueue(r) + (IF Dequeued(r) THEN 1 ELSE 0) = 1
       /\ ~Accepted(r) => InQueue(r) = 0 /\ ~Dequeued(r)

RECURSIVE Concat(_)
Concat(texts) ==
  IF texts = <<>> THEN <<>> ELSE Head(texts) \o Concat(Tail(texts))

\* the message of the commit flow's first attempt, as line 207 leaves it
FirstMessage == trim(Concat(Texts(received[1])))

\* C20: the commit flow sends at most two commands.  When the first
\* message matches the regex, no second command is sent and the flow
\* keeps the first message.  When it does not match, the flow goes on to
\* one retry; the retry's command has temperature 1.2, where the first
\* had 0.8, and the same prompt; and when the retry's channel closes the
\* flow has the second message, whether or not it matches.
C20_RetryBoundedToOne ==
  scenario = "commit" =>
    /\ \A r \in Clients : r > 2 => ~Accepted(r) /\ clientPc[r] = "absent"
    /\ (clientPc[1] = "done" /\ is_match(FirstMessage)) =>
         /\ ~Accepted(2) /\ clientPc[2] = "absent"
         /\ commit_message = FirstMessage
    /\ (clientPc[1] = "done" /\ ~is_match(FirstMessage)) =>
         clientPc[2] # "absent"
    /\ clientPc[1] # "done" => clientPc[2] = "absent"
    /\ Accepted(2) =>
         /\ submitted[1].temperature = 8
         /\ submitted[2].temperature = 12
         /\ submitted[2].prompt = submitted[1].prompt
    /\ clientPc[2] = "done" =>
         commit_message = Concat(Texts(received[2]))

\* the first message did not match, the retry was sent and drained, and
\* the flow has the second message, which does not match either
C20_Witness ==
  /\ scenario = "commit"
  /\ clientPc[1] = "done" /\ ~is_match(FirstMessage)
  /\ clientPc[2] = "done" /\ received[2] # <<>>
  /\ commit_message = Concat(Texts(received[2]))
  /\ ~is_match(commit_message)


\* the commit flow has gone through lines 231-262
CommitEnded == scenario = "commit" /\ cli.spinner = "success"

\* C21: with --dry-run the commit flow executes no git commit and asks
\* nothing; with --yes and no --dry-run it commits the generated message
\* without asking; with neither it asks, and commits the generated message
\* on "Commit" and the edited one on "Edit"; before the message is
\* generated nothing is committed or asked
C21_CommitModes ==
  scenario = "commit" =>
    /\ ~CommitEnded => cli.commits = <<>> /\ cli.asked = <<>>
    /\ CommitEnded /\ flags.dry_run =>
         cli.commits = <<>> /\ cli.asked = <<>>
    /\ CommitEnded /\ ~flags.dry_run /\ flags.all_yes =>
         cli.commits = <<commit_message>> /\ cli.asked = <<>>
    /\ CommitEnded /\ ~flags.dry_run /\ ~flags.all_yes =>
         /\ cli.asked # <<>>
         /\ cli.asked[1].prompt = "Select"
         /\ cli.asked[1].answer = Some("Commit") =>
              cli.commits = <<commit_message>> /\ Len(cli.asked) = 1
         /\ cli.asked[1].answer = Some("Edit") =>
              /\ Len(cli.asked) = 2
              /\ cli.asked[2].prompt = "Text"
              /\ cli.commits = IF cli.asked[2].answer.some
                               THEN <<cli.asked[2].answer.val>> ELSE <<>>
         /\ cli.asked[1].answer = None =>
              cli.commits = <<>> /\ Len(cli.asked) = 1

\* a user without --yes and --dry-run has chosen "Edit", typed another
\* message than the generated one, and that message is committed
C21_Witness ==
  /\ CommitEnded
  /\ ~flags.dry_run /\ ~flags.all_yes
  /\ Len(cli.asked) = 2
  /\ cli.commits = << <<"e">> >>
  /\ commit_message # <<"e">>
  /\ cli.exit = Some(0)

Handlers == {r \in Clients : FrontEnd(scenario) = "completion"}

\* C23: the events of a request's stream are, one for one and in order,
\* the fragments its handler has received, each as choices[0].text; a
\* stream that has ended has ended on a closed and drained channel, and
\* with no event beyond the fragments'
C23_OneEventPerFragment ==
  \A r \in Handlers :
    /\ Len(events[r]) = Len(received[r])
    /\ \A i \in 1..Len(events[r]) :
         /\ events[r][i].choices # <<>>
         /\ events[r][i].choices[1].text = received[r][i].text
    /\ clientPc[r] = "done" => senderDropped[r] /\ chan[r] = <<>>

\* a stream has ended after two events with different texts
C23_Witness ==
  \E r \in Handlers :
    /\ clientPc[r] = "done"
    /\ Len(events[r]) = 2
    /\ events[r][1].choices[1].text # events[r][2].choices[1].text
    /\ Texts(received[r]) = sent[r]

\* C24: an event that is followed by another event of the same stream has
\* no finish_reason
C24_FinishReasonOnlyOnLast ==
  \A r \in Handlers :
    \A i \in 1..(Len(events[r]) - 1) :
      events[r][i].choices[1].finish_reason = None

C26_NonEmptyText ==
  \A r \in Handlers :
    \A i \in 1..Len(events[r]) :
      \A k \in 1..Len(events[r][i].choices) :
        events[r][i].choices[k].text # <<>>


\* C27: while the prompt flow receives, standard output is the
\* concatenation of the fragments received, in order; once the channel has
\* closed it is that concatenation, followed by a newline unless the last
\* fragment is one, and it ends with a newline
C27_StdoutConcatEndsWithNewline ==
  scenario = "prompt" =>
    LET out == Concat(Texts(received[1])) IN
      /\ clientPc[1] = "receiving" => cli.stdout = out
      /\ clientPc[1] = "done" =>
           /\ cli.stdout \in {out, Append(out, "\n")}
           /\ cli.stdout # <<>>
           /\ cli.stdout[Len(cli.stdout)] = "\n"

\* the prompt flow is over after two fragments, the last of them " a"
C27_Witness ==
  /\ scenario = "prompt"
  /\ clientPc[1] = "done"
  /\ Len(received[1]) = 2
  /\ received[1][2].text = <<" ", "a">>
  /\ cli.stdout = Append(Concat(Texts(received[1])), "\n")

\* C28: the sampler of a completion request's run has the request's
\* temperature (1.0 when absent) and the request's top_p, and the command
\* has the request's prompt (empty when absent)
C28_RequestSamplingParameters ==
  \A r \in Handlers :
    runLog[r].sampler.some =>
      /\ runLog[r].sampler.val.temperature =
           Some(IF requests[r].temperature.some
                THEN requests[r].temperature.val ELSE 10)
      /\ runLog[r].sampler.val.top_p = requests[r].top_p
      /\ submitted[r].prompt = IF requests[r].prompt.some
                               THEN requests[r].prompt.val
                               ELSE PromptOfLen(0)

\* the fields of the builder and the methods that set them
BuilderFields == DOMAIN NoneGiven

\* C29: the builder is in one of the four typestates, in their order:
\* tokenizer_repo_id is set from WithTokenizerRepoId on, model_repo_id from
\* WithModelRepoId on, model_file_name in ReadyState, and the optional
\* fields and build only in ReadyState; every field holds what its setter
\* was last given, and None if it was never called; the LLM that build
\* returns has the given values, "main" for a revision never set and
\* "tokenizer.json" for a tokenizer file never set
C29_BuilderTypestate ==
  LET b == builder.self
      g == builder.given
  IN /\ b.state \in {"InitState", "WithTokenizerRepoId", "WithModelRepoId",
                     "ReadyState"}
     /\ \A m \in BuilderFields : b[m] = g[m]
     /\ b.tokenizer_repo_id.some <=> b.state # "InitState"
     /\ b.model_repo_id.some <=>
          b.state \in {"WithModelRepoId", "ReadyState"}
     /\ b.model_file_name.some <=> b.state = "ReadyState"
     /\ \A m \in {"tokenizer_repo_revision", "tokenizer_file_name",
                  "model_repo_revision"} :
          g[m].some => b.state = "ReadyState"
     /\ builder.llm.some => b.state = "ReadyState"
     /\ builder.llm.some /\ builder.llm.val.ok =>
          LET l == builder.llm.val IN
            /\ l.tokenizer_repo_id = g["tokenizer_repo_id"].val
            /\ l.model_repo_id = g["model_repo_id"].val
            /\ l.model_file_name = g["model_file_name"].val
            /\ l.tokenizer_repo_revision =
                 IF g["tokenizer_repo_revision"].some
                 THEN g["tokenizer_repo_revision"].val ELSE "main"
            /\ l.model_repo_revision =
                 IF g["model_repo_revision"].some
                 THEN g["model_repo_revision"].val ELSE "main"
            /\ l.tokenizer_file_name =
                 IF g["tokenizer_file_name"].some
                 THEN g["tokenizer_file_name"].val ELSE "tokenizer.json"

\* an LLM built from a builder whose model revision was set and whose
\* tokenizer revision and file were not
C29_Witness ==
  /\ scenario = "builder"
  /\ builder.llm.some /\ builder.llm.val.ok
  /\ builder.given["tokenizer_repo_id"] = Some("b")
  /\ builder.given["model_repo_revision"] = Some("b")
  /\ ~builder.given["tokenizer_repo_revision"].some
  /\ ~builder.given["tokenizer_file_name"].some
  /\ builder.llm.val.tokenizer_file_name = "tokenizer.json"

\* the logits of the first n draws of runs a and b are the same
SameLogits(a, b, n) ==
  \A j \in 1..n : runLog[a].draws[j].logits = runLog[b].draws[j].logits

\* C30: two runs whose samplers have the same seed, temperature and top_p
\* have sampled the same tokens for as long as they have seen the same
\* logits, whichever ran first and whatever ran in between
C30_SameLogitsSameTokens ==
  \A a, b \in Clients :
    (runLog[a].sampler.some /\ runLog[a].sampler = runLog[b].sampler) =>
      \A i \in 1..Min(Len(runLog[a].draws), Len(runLog[b].draws)) :
        SameLogits(a, b, i) =>
          runLog[a].draws[i].tok = runLog[b].draws[i].tok

\* a run that started after another had returned has seen the same
\* logits and sampled the same two tokens
C30_Witness ==
  \E a, b \in Clients :
    /\ a # b
    /\ runLog[a].sampler.some /\ runLog[a].sampler = runLog[b].sampler
    /\ Len(runLog[a].draws) = 2 /\ Len(runLog[b].draws) = 2
    /\ SameLogits(a, b, 2)
    /\ procs[a].pc = "done" /\ procs[b].pc = "done"
    /\ runLog[a].draws[1].tok # runLog[a].draws[2].tok


\* call i of the history is the first forward call of its run
FirstCall(i) == \A k \in 1..(i - 1) : fwdLog[k].run # fwdLog[i].run

\* the call before call i in the same run
PrevCall(i) ==
  CHOOSE j \in 1..(i - 1) :
    /\ fwdLog[j].run = fwdLog[i].run
    /\ \A k \in (j + 1)..(i - 1) : fwdLog[k].run # fwdLog[i].run

\* C31: the first forward call of a run is at position 0 and feeds the
\* whole retained prompt; every later call feeds one token, the one
\* sampled last, at the position that is the number of tokens the earlier
\* calls of the run have fed (the previous call's position plus what that
\* call fed), which is prompt_len + index
C31_PositionBookkeeping ==
  /\ \A i \in 1..Len(fwdLog) :
       IF FirstCall(i)
       THEN fwdLog[i].pos = 0
       ELSE /\ fwdLog[i].len = 1
            /\ fwdLog[i].pos =
                 fwdLog[PrevCall(i)].pos + fwdLog[PrevCall(i)].len
  /\ \A r \in Clients :
       /\ procs[r].pc \in {"forward", "send"} =>
            \E i \in 1..Len(fwdLog) :
              /\ fwdLog[i].run = r
              /\ FirstCall(i)
              /\ fwdLog[i].len = Len(procs[r].prompt_tokens)
       /\ procs[r].pc = "forward" =>
            procs[r].next_token = procs[r].all_tokens[Len(procs[r].all_tokens)]
       /\ procs[r].pc = "send" =>
            /\ procs[r].fed =
                 procs[r].all_tokens[Len(procs[r].all_tokens) - 1]
            /\ fwdLog[Len(fwdLog)] =
                 ForwardCall(r, 1, Len(procs[r].prompt_tokens) + procs[r].index)
            /\ Forwards(r) = 2 + procs[r].index

\* a run whose prompt was truncated has made its second forward call, at
\* the position that is the length of the retained window
C31_Witness ==
  \E r \in Clients :
    /\ procs[r].pc = "send"
    /\ Len(procs[r].prompt_tokens) > 1
    /\ Len(procs[r].prompt_tokens) < Len(Encode(procs[r].cmd.prompt))
    /\ Len(fwdLog) = 2
    /\ fwdLog[1] = ForwardCall(r, Len(procs[r].prompt_tokens), 0)
    /\ fwdLog[2] = ForwardCall(r, 1, Len(procs[r].prompt_tokens))


\* the last fragment the prompt flow has written, "" if there is none
LastWritten ==
  IF received[1] = <<>> THEN <<>> ELSE received[1][Len(received[1])].text

\* a text that ends with a newline
EndsWithNewline(text) == text # <<>> /\ text[Len(text)] = "\n"

\* C32: once the prompt flow is over, a newline has been written after
\* the fragments if and only if the last fragment written does not end
\* with a newline
C32_NewlineIffLastLacksOne ==
  (scenario = "prompt" /\ clientPc[1] = "done") =>
    (cli.stdout # Concat(Texts(received[1])) <=> ~EndsWithNewline(LastWritten))


\* the command sent with responder r is in flight: accepted, and its
\* responder not yet dropped by the actor
InFlight(r) == Accepted(r) /\ ~senderDropped[r]

\* the message collected from the last command the commit flow has sent:
\* the retry's as it came, or the first attempt's, trimmed
LastCollected ==
  IF Accepted(2) THEN Concat(Texts(received[2])) ELSE FirstMessage

\* C33: a commit invocation sends at most two commands and has at most
\* one in flight; when the retry is sent the first responder channel has
\* closed and everything sent on it has been collected; the message the
\* flow goes on with, and commits, is the one collected from the last
\* command sent
C33_CommitAtMostTwoSequential ==
  scenario = "commit" =>
    /\ Len(enqueued) <= 2
    /\ \A r \in Clients : r > 2 => ~Accepted(r)
    /\ ~(InFlight(1) /\ InFlight(2))
    /\ Accepted(2) =>
         /\ clientPc[1] = "done"
         /\ senderDropped[1] /\ chan[1] = <<>>
         /\ Texts(received[1]) = sent[1]
         /\ enqueued = <<1, 2>>
    /\ Generated => commit_message = LastCollected
    /\ \A i \in 1..Len(cli.commits) :
         cli.asked = <<>> => cli.commits[i] = LastCollected

\* the retry was sent and collected, and --yes has committed its message
C33_Witness ==
  /\ CommitEnded
  /\ Accepted(2)
  /\ received[1] # <<>> /\ received[2] # <<>>
  /\ Texts(received[2]) = sent[2]
  /\ cli.commits = <<Concat(Texts(received[2]))>>

\* C34: the message the commit flow has when it gets to the report and to
\* the accept/edit/commit step has no leading and no trailing whitespace
C34_MessageTrimmed ==
  Generated => commit_message = trim(commit_message)


\* the actor is blocked in responder.send for run r: the buffer is full
\* and the receiver alive
BlockedOnSend(r) ==
  /\ procs[r].pc = "send"
  /\ Len(chan[SendTarget(procs[r].cmd)]) >= RESPONDER_CAP
  /\ ~receiverDropped[SendTarget(procs[r].cmd)]

====
